---- MODULE Spec2Model ----
(***************************************************************************)
(* A model of src/type.c of vctrs: the type resolver vec_typeof_impl, the  *)
(* name table vec_type_as_str, the recursive predicate vec_is_vector_rec   *)
(* with its two entry points, and the initialiser vctrs_init_types of the  *)
(* shared constants.                                                       *)
(*                                                                         *)
(* An R value (SEXP) is modelled by what the code inspects of it: its      *)
(* TYPEOF tag and its class attribute (the OBJECT bit is set exactly when  *)
(* the class attribute is not empty).  vec_proxy is external: it may       *)
(* return any value at all, its argument included.                         *)
(***************************************************************************)
EXTENDS Integers, Sequences, FiniteSets, TLC

\* Deepest nesting of vec_is_vector_rec frames the model explores.
MaxDepth == 3

-----------------------------------------------------------------------------
\* The host value model

PrimitiveSexp == {"LGLSXP", "INTSXP", "REALSXP", "CPLXSXP", "STRSXP", "RAWSXP"}

OtherSexp == {"CLOSXP", "ENVSXP", "EXTPTRSXP"}

ClassAttrs ==
  {<<>>, <<"data.frame">>, <<"tbl_df", "data.frame">>, <<"vctrs_rcrd">>, <<"foo">>}

R_NilValue == [TYPEOF |-> "NILSXP", class |-> <<>>]

Values ==
  {R_NilValue}
    \cup [TYPEOF : PrimitiveSexp \cup {"VECSXP"} \cup OtherSexp, class : ClassAttrs]

TYPEOF(x) == x.TYPEOF

OBJECT(x) == Len(x.class) > 0

Rf_inherits(x, name) ==
  OBJECT(x) /\ \E i \in 1..Len(x.class) : x.class[i] = name

is_data_frame(x) == Rf_inherits(x, "data.frame")

is_record(x) == Rf_inherits(x, "vctrs_rcrd") \/ Rf_inherits(x, "POSIXlt")

-----------------------------------------------------------------------------
\* The kind taxonomy and the resolver

vctrs_type ==
  {"vctrs_type_null", "vctrs_type_logical", "vctrs_type_integer",
   "vctrs_type_double", "vctrs_type_complex", "vctrs_type_character",
   "vctrs_type_raw", "vctrs_type_list", "vctrs_type_dataframe",
   "vctrs_type_s3", "vctrs_type_scalar"}

\* The resolver with the class marker of a primitive array honoured even
\* when dispatch is off.
vec_typeof_impl_AlwaysS3(x, dispatch) ==
  CASE TYPEOF(x) = "NILSXP" -> "vctrs_type_null"
    [] TYPEOF(x) = "LGLSXP" -> IF OBJECT(x) THEN "vctrs_type_s3" ELSE "vctrs_type_logical"
    [] TYPEOF(x) = "INTSXP" -> IF OBJECT(x) THEN "vctrs_type_s3" ELSE "vctrs_type_integer"
    [] TYPEOF(x) = "REALSXP" -> IF OBJECT(x) THEN "vctrs_type_s3" ELSE "vctrs_type_double"
    [] TYPEOF(x) = "CPLXSXP" -> IF OBJECT(x) THEN "vctrs_type_s3" ELSE "vctrs_type_complex"
    [] TYPEOF(x) = "STRSXP" -> IF OBJECT(x) THEN "vctrs_type_s3" ELSE "vctrs_type_character"
    [] TYPEOF(x) = "RAWSXP" -> IF OBJECT(x) THEN "vctrs_type_s3" ELSE "vctrs_type_raw"
    [] TYPEOF(x) = "VECSXP" ->
         IF ~OBJECT(x) THEN "vctrs_type_list"
         ELSE IF is_data_frame(x) THEN "vctrs_type_dataframe"
         ELSE IF dispatch THEN "vctrs_type_s3"
         ELSE "vctrs_type_scalar"
    [] OTHER -> "vctrs_type_scalar"

\* The resolver with the classed, non-tabular container falling back to s3
\* instead of scalar when dispatch is off.
vec_typeof_impl_ListS3(x, dispatch) ==
  CASE TYPEOF(x) = "NILSXP" -> "vctrs_type_null"
    [] TYPEOF(x) = "LGLSXP" -> IF OBJECT(x) /\ dispatch THEN "vctrs_type_s3" ELSE "vctrs_type_logical"
    [] TYPEOF(x) = "INTSXP" -> IF OBJECT(x) /\ dispatch THEN "vctrs_type_s3" ELSE "vctrs_type_integer"
    [] TYPEOF(x) = "REALSXP" -> IF OBJECT(x) /\ dispatch THEN "vctrs_type_s3" ELSE "vctrs_type_double"
    [] TYPEOF(x) = "CPLXSXP" -> IF OBJECT(x) /\ dispatch THEN "vctrs_type_s3" ELSE "vctrs_type_complex"
    [] TYPEOF(x) = "STRSXP" -> IF OBJECT(x) /\ dispatch THEN "vctrs_type_s3" ELSE "vctrs_type_character"
    [] TYPEOF(x) = "RAWSXP" -> IF OBJECT(x) /\ dispatch THEN "vctrs_type_s3" ELSE "vctrs_type_raw"
    [] TYPEOF(x) = "VECSXP" ->
         IF ~OBJECT(x) THEN "vctrs_type_list"
         ELSE IF is_data_frame(x) THEN "vctrs_type_dataframe"
         ELSE "vctrs_type_s3"
    [] OTHER -> "vctrs_type_scalar"

vec_typeof_impl(x, dispatch) ==
  CASE TYPEOF(x) = "NILSXP" -> "vctrs_type_null"
    [] TYPEOF(x) = "LGLSXP" -> IF OBJECT(x) /\ dispatch THEN "vctrs_type_s3" ELSE "vctrs_type_logical"
    [] TYPEOF(x) = "INTSXP" -> IF OBJECT(x) /\ dispatch THEN "vctrs_type_s3" ELSE "vctrs_type_integer"
    [] TYPEOF(x) = "REALSXP" -> IF OBJECT(x) /\ dispatch THEN "vctrs_type_s3" ELSE "vctrs_type_double"
    [] TYPEOF(x) = "CPLXSXP" -> IF OBJECT(x) /\ dispatch THEN "vctrs_type_s3" ELSE "vctrs_type_complex"
    [] TYPEOF(x) = "STRSXP" -> IF OBJECT(x) /\ dispatch THEN "vctrs_type_s3" ELSE "vctrs_type_character"
    [] TYPEOF(x) = "RAWSXP" -> IF OBJECT(x) /\ dispatch THEN "vctrs_type_s3" ELSE "vctrs_type_raw"
    [] TYPEOF(x) = "VECSXP" ->
         IF ~OBJECT(x) THEN "vctrs_type_list"
         ELSE IF is_data_frame(x) THEN "vctrs_type_dataframe"
         ELSE IF dispatch THEN "vctrs_type_s3"
         ELSE "vctrs_type_scalar"
    [] OTHER -> "vctrs_type_scalar"

\* What a call that runs off the end of vec_type_as_str's switch yields: no
\* name at all.
NoName == ""

\* The name table with the dataframe case sharing the name of list.
vec_type_as_str_SharedName(type) ==
  CASE type = "vctrs_type_null" -> "null"
    [] type = "vctrs_type_logical" -> "logical"
    [] type = "vctrs_type_integer" -> "integer"
    [] type = "vctrs_type_double" -> "double"
    [] type = "vctrs_type_complex" -> "complex"
    [] type = "vctrs_type_character" -> "character"
    [] type = "vctrs_type_raw" -> "raw"
    [] type = "vctrs_type_list" -> "list"
    [] type = "vctrs_type_dataframe" -> "list"
    [] type = "vctrs_type_s3" -> "s3"
    [] type = "vctrs_type_scalar" -> "scalar"
    [] OTHER -> NoName

vec_type_as_str(type) ==
  CASE type = "vctrs_type_null" -> "null"
    [] type = "vctrs_type_logical" -> "logical"
    [] type = "vctrs_type_integer" -> "integer"
    [] type = "vctrs_type_double" -> "double"
    [] type = "vctrs_type_complex" -> "complex"
    [] type = "vctrs_type_character" -> "character"
    [] type = "vctrs_type_raw" -> "raw"
    [] type = "vctrs_type_list" -> "list"
    [] type = "vctrs_type_dataframe" -> "dataframe"
    [] type = "vctrs_type_s3" -> "s3"
    [] type = "vctrs_type_scalar" -> "scalar"
    [] OTHER -> NoName

\* The first group of cases of vec_is_vector_rec's switch, with the
\* dataframe label missing.
IsVectorKind_NoDataframe(kind) ==
  kind \in {"vctrs_type_logical", "vctrs_type_integer", "vctrs_type_double",
            "vctrs_type_complex", "vctrs_type_character", "vctrs_type_raw",
            "vctrs_type_list"}

IsVectorKind(kind) ==
  kind \in {"vctrs_type_logical", "vctrs_type_integer", "vctrs_type_double",
            "vctrs_type_complex", "vctrs_type_character", "vctrs_type_raw",
            "vctrs_type_list", "vctrs_type_dataframe"}

\* The recursive call passing its own dispatch flag on.
RecDispatch_Inherited(dispatch) == dispatch

\* The dispatch flag vec_is_vector_rec gives its recursive call.
RecDispatch(dispatch) == FALSE

-----------------------------------------------------------------------------
\* The shared constants and vctrs_init_types

EmptyVars ==
  <<"vctrs_shared_empty_lgl", "vctrs_shared_empty_int", "vctrs_shared_empty_dbl",
    "vctrs_shared_empty_cpl", "vctrs_shared_empty_chr", "vctrs_shared_empty_raw",
    "vctrs_shared_empty_list">>

EmptyTypes ==
  <<"LGLSXP", "INTSXP", "REALSXP", "CPLXSXP", "STRSXP", "RAWSXP", "VECSXP">>

SharedVars ==
  {EmptyVars[i] : i \in 1..Len(EmptyVars)} \cup {"vctrs_shared_true", "vctrs_shared_false"}

\* The C null pointer, in a table of heap addresses.
NULL == 0

\* What the element of a freshly allocated logical vector may hold.
UninitValues == {0, 1, 2}

\* One constant's statements with the R_PreserveObject call left out.
Block_NoPreserve(var, type, len) ==
  << [op |-> "alloc", var |-> var, type |-> type, len |-> len],
     [op |-> "mark", var |-> var] >>

\* The statements that set up one shared constant: Rf_allocVector,
\* R_PreserveObject, MARK_NOT_MUTABLE.
Block(var, type, len) ==
  << [op |-> "alloc", var |-> var, type |-> type, len |-> len],
     [op |-> "preserve", var |-> var],
     [op |-> "mark", var |-> var] >>

\* The statements of a shared boolean: its block, then the store of its value.
ScalarBlock(var, val) ==
  Block(var, "LGLSXP", 1) \o << [op |-> "store", var |-> var, val |-> val] >>

RECURSIVE EmptyBlocks(_)
EmptyBlocks(i) ==
  IF i > Len(EmptyVars) THEN << >>
  ELSE Block(EmptyVars[i], EmptyTypes[i], 0) \o EmptyBlocks(i + 1)

\* The statements of vctrs_init_types, in program order.
InitProgram ==
  << [op |-> "lookup"] >>
    \o EmptyBlocks(1)
    \o ScalarBlock("vctrs_shared_true", 1)
    \o ScalarBlock("vctrs_shared_false", 0)
    \o << [op |-> "na_cpl"] >>

-----------------------------------------------------------------------------

VARIABLES
  heap,          \* the R heap: the vectors allocated so far, by address
  precious,      \* the addresses R_PreserveObject has registered
  shared,        \* the vctrs_shared_* globals: variable -> address or NULL
  statics,       \* syms_/fns_vec_is_vector_dispatch and vctrs_shared_na_cpl
  initPc,        \* the next statement of vctrs_init_types
  op,            \* the entry point of the current (or last) call
  arg,           \* its value argument
  argDispatch,   \* its dispatch argument
  stack,         \* the frames of vec_is_vector_rec, innermost last
  ret,           \* the value the last finished frame returned
  proxyLog,      \* the vec_proxy calls of the current call: argument, result
  protectStack,  \* R's PROTECT stack
  typeKind,      \* the kind vec_typeof / vctrs_typeof resolved
  typeName       \* the string vctrs_typeof returned

vars ==
  <<heap, precious, shared, statics, initPc, op, arg, argDispatch, stack, ret,
    proxyLog, protectStack, typeKind, typeName>>

poolVars == <<heap, precious, shared, statics, initPc>>

callVars ==
  <<op, arg, argDispatch, stack, ret, proxyLog, protectStack, typeKind, typeName>>

NoKind == "none"

Init ==
  /\ heap = << >>
  /\ precious = {}
  /\ shared = [v \in SharedVars |-> NULL]
  /\ statics = [syms |-> "NULL", fns |-> "NULL", na_cpl |-> [r |-> "0.0", i |-> "0.0"]]
  /\ initPc = 1
  /\ op = "none"
  /\ arg = R_NilValue
  /\ argDispatch = TRUE
  /\ stack = << >>
  /\ ret = FALSE
  /\ proxyLog = << >>
  /\ protectStack = << >>
  /\ typeKind = NoKind
  /\ typeName = NoName

InitDone == initPc > Len(InitProgram)

Stmt == InitProgram[initPc]

\* A garbage collection: every vector that is not registered as precious is
\* reclaimed.  (No vector of this model is on the PROTECT stack or reachable
\* from another one.)
Collect(h) ==
  [a \in 1..Len(h) |-> IF a \in precious THEN h[a] ELSE [h[a] EXCEPT !.freed = TRUE]]

\* Rf_install("vec_is_vector"); Rf_findVar(sym, ns)
InitLookup ==
  /\ ~InitDone
  /\ Stmt.op = "lookup"
  /\ statics' = [statics EXCEPT !.syms = "vec_is_vector", !.fns = "ns::vec_is_vector"]
  /\ initPc' = initPc + 1
  /\ UNCHANGED <<heap, precious, shared>>
  /\ UNCHANGED callVars

\* var = Rf_allocVector(type, len): the allocation may run the collector
\* first; the elements of a fresh logical vector are not initialised.
InitAlloc ==
  /\ ~InitDone
  /\ Stmt.op = "alloc"
  /\ \E gc \in BOOLEAN, junk \in UninitValues :
       LET before == IF gc THEN Collect(heap) ELSE heap
           fresh == [type |-> Stmt.type,
                     length |-> Stmt.len,
                     data |-> [i \in 1..Stmt.len |-> junk],
                     named |-> FALSE,
                     freed |-> FALSE]
       IN /\ heap' = Append(before, fresh)
          /\ shared' = [shared EXCEPT ![Stmt.var] = Len(heap) + 1]
  /\ initPc' = initPc + 1
  /\ UNCHANGED <<precious, statics>>
  /\ UNCHANGED callVars

\* R_PreserveObject(var)
InitPreserve ==
  /\ ~InitDone
  /\ Stmt.op = "preserve"
  /\ precious' = precious \cup {shared[Stmt.var]}
  /\ initPc' = initPc + 1
  /\ UNCHANGED <<heap, shared, statics>>
  /\ UNCHANGED callVars

\* MARK_NOT_MUTABLE(var)
InitMark ==
  /\ ~InitDone
  /\ Stmt.op = "mark"
  /\ heap' = [heap EXCEPT ![shared[Stmt.var]].named = TRUE]
  /\ initPc' = initPc + 1
  /\ UNCHANGED <<precious, shared, statics>>
  /\ UNCHANGED callVars

\* LOGICAL(var)[0] = val
InitStore ==
  /\ ~InitDone
  /\ Stmt.op = "store"
  /\ heap' = [heap EXCEPT ![shared[Stmt.var]].data[1] = Stmt.val]
  /\ initPc' = initPc + 1
  /\ UNCHANGED <<precious, shared, statics>>
  /\ UNCHANGED callVars

\* vctrs_shared_na_cpl.i = NA_REAL; vctrs_shared_na_cpl.r = NA_REAL
InitNaCpl ==
  /\ ~InitDone
  /\ Stmt.op = "na_cpl"
  /\ statics' = [statics EXCEPT !.na_cpl = [r |-> "NA_REAL", i |-> "NA_REAL"]]
  /\ initPc' = initPc + 1
  /\ UNCHANGED <<heap, precious, shared>>
  /\ UNCHANGED callVars

vctrs_init_types ==
  \/ InitLookup
  \/ InitAlloc
  \/ InitPreserve
  \/ InitMark
  \/ InitStore
  \/ InitNaCpl

-----------------------------------------------------------------------------
\* vec_typeof, vctrs_typeof, vec_is_vector, vctrs_is_vector
\*
\* vctrs_init_types runs when the package is loaded, so a call starts only
\* once it has finished, and only when no other call is running.  The result
\* registers of the previous call are dead when a call starts, and are
\* cleared.

Idle == InitDone /\ stack = << >>

Frame(x, dispatch) == [x |-> x, dispatch |-> dispatch, pc |-> "switch"]

Top == stack[Len(stack)]

Pop == SubSeq(stack, 1, Len(stack) - 1)

\* enum vctrs_type vec_typeof(SEXP x)
vec_typeof ==
  /\ Idle
  /\ \E x \in Values :
       /\ op' = "vec_typeof"
       /\ arg' = x
       /\ argDispatch' = TRUE
       /\ typeKind' = vec_typeof_impl(x, TRUE)
  /\ typeName' = NoName
  /\ ret' = FALSE
  /\ proxyLog' = << >>
  /\ UNCHANGED <<stack, protectStack>>
  /\ UNCHANGED poolVars

\* SEXP vctrs_typeof(SEXP x, SEXP dispatch)
vctrs_typeof ==
  /\ Idle
  /\ \E x \in Values, dispatch \in BOOLEAN :
       /\ op' = "vctrs_typeof"
       /\ arg' = x
       /\ argDispatch' = dispatch
       /\ typeKind' = vec_typeof_impl(x, dispatch)
       /\ typeName' = vec_type_as_str(vec_typeof_impl(x, dispatch))
  /\ ret' = FALSE
  /\ proxyLog' = << >>
  /\ UNCHANGED <<stack, protectStack>>
  /\ UNCHANGED poolVars

\* bool vec_is_vector(SEXP x): enters vec_is_vector_rec(x, true)
vec_is_vector ==
  /\ Idle
  /\ \E x \in Values :
       /\ op' = "vec_is_vector"
       /\ arg' = x
       /\ argDispatch' = TRUE
       /\ stack' = << Frame(x, TRUE) >>
  /\ ret' = FALSE
  /\ proxyLog' = << >>
  /\ typeKind' = NoKind
  /\ typeName' = NoName
  /\ UNCHANGED protectStack
  /\ UNCHANGED poolVars

\* SEXP vctrs_is_vector(SEXP x, SEXP dispatch): enters
\* vec_is_vector_rec(x, LOGICAL(dispatch)[0])
vctrs_is_vector ==
  /\ Idle
  /\ \E x \in Values, dispatch \in BOOLEAN :
       /\ op' = "vctrs_is_vector"
       /\ arg' = x
       /\ argDispatch' = dispatch
       /\ stack' = << Frame(x, dispatch) >>
  /\ ret' = FALSE
  /\ proxyLog' = << >>
  /\ typeKind' = NoKind
  /\ typeName' = NoName
  /\ UNCHANGED protectStack
  /\ UNCHANGED poolVars

Running == stack # << >>

AtSwitch == Running /\ Top.pc = "switch"

TopKind == vec_typeof_impl(Top.x, Top.dispatch)

\* vec_is_vector_rec, the vector cases: return true
RecReturnTrue ==
  /\ AtSwitch
  /\ IsVectorKind(TopKind)
  /\ ret' = TRUE
  /\ stack' = Pop
  /\ UNCHANGED <<op, arg, argDispatch, proxyLog, protectStack, typeKind, typeName>>
  /\ UNCHANGED poolVars

\* vec_is_vector_rec, case vctrs_type_s3: proxy = PROTECT(vec_proxy(x)), then
\* the recursive call.  vec_proxy is outside this file: it returns any value,
\* and it may allocate, so the collector may run.
RecProxy ==
  /\ AtSwitch
  /\ ~IsVectorKind(TopKind)
  /\ TopKind = "vctrs_type_s3"
  /\ Len(stack) < MaxDepth
  /\ \E proxy \in Values, gc \in BOOLEAN :
       /\ heap' = IF gc THEN Collect(heap) ELSE heap
       /\ proxyLog' = Append(proxyLog, [x |-> Top.x, proxy |-> proxy])
       /\ protectStack' = Append(protectStack, proxy)
       /\ stack' = Append([stack EXCEPT ![Len(stack)].pc = "await"],
                          Frame(proxy, RecDispatch(Top.dispatch)))
  /\ UNCHANGED <<op, arg, argDispatch, ret, typeKind, typeName>>
  /\ UNCHANGED <<precious, shared, statics, initPc>>

\* vec_is_vector_rec, case vctrs_type_s3 after the recursive call has
\* returned: UNPROTECT(1); return out
RecReturnOut ==
  /\ Running
  /\ Top.pc = "await"
  /\ protectStack' = SubSeq(protectStack, 1, Len(protectStack) - 1)
  /\ stack' = Pop
  /\ UNCHANGED <<op, arg, argDispatch, ret, proxyLog, typeKind, typeName>>
  /\ UNCHANGED poolVars

\* vec_is_vector_rec, default: return false
RecReturnFalse ==
  /\ AtSwitch
  /\ ~IsVectorKind(TopKind)
  /\ TopKind # "vctrs_type_s3"
  /\ ret' = FALSE
  /\ stack' = Pop
  /\ UNCHANGED <<op, arg, argDispatch, proxyLog, protectStack, typeKind, typeName>>
  /\ UNCHANGED poolVars

vec_is_vector_rec ==
  \/ RecReturnTrue
  \/ RecProxy
  \/ RecReturnOut
  \/ RecReturnFalse

Next ==
  \/ vctrs_init_types
  \/ vec_typeof
  \/ vctrs_typeof
  \/ vec_is_vector
  \/ vctrs_is_vector
  \/ vec_is_vector_rec

Spec == Init /\ [][Next]_vars

\* A call that has been entered runs on: the C code of vec_is_vector_rec is
\* not preempted, and vec_proxy is taken to return.
FairSpec == Spec /\ WF_vars(vec_is_vector_rec)

-----------------------------------------------------------------------------
\* Properties

\* A call of entry point o has returned.
Returned(o) == InitDone /\ op = o /\ stack = << >>

\* C1: a primitive array without a class attribute resolves to its own
\* primitive kind whatever the dispatch flag; with a class attribute it
\* resolves to s3 when dispatch is on and to its primitive kind when
\* dispatch is off.
C1_PrimitiveArrays ==
  (op \in {"vec_typeof", "vctrs_typeof"} /\ arg.TYPEOF \in PrimitiveSexp) =>
    LET prim == CASE arg.TYPEOF = "LGLSXP" -> "vctrs_type_logical"
                  [] arg.TYPEOF = "INTSXP" -> "vctrs_type_integer"
                  [] arg.TYPEOF = "REALSXP" -> "vctrs_type_double"
                  [] arg.TYPEOF = "CPLXSXP" -> "vctrs_type_complex"
                  [] arg.TYPEOF = "STRSXP" -> "vctrs_type_character"
                  [] arg.TYPEOF = "RAWSXP" -> "vctrs_type_raw"
    IN /\ arg.class = << >> => typeKind = prim
       /\ (arg.class # << >> /\ argDispatch) => typeKind = "vctrs_type_s3"
       /\ (arg.class # << >> /\ ~argDispatch) => typeKind = prim

C1_Witness ==
  /\ op = "vctrs_typeof"
  /\ arg = [TYPEOF |-> "INTSXP", class |-> <<"foo">>]
  /\ ~argDispatch
  /\ typeKind = "vctrs_type_integer"

\* C2: a generic container resolves to list without a class attribute, to
\* dataframe when its class attribute holds "data.frame" (both dispatch
\* modes), and otherwise to s3 with dispatch on and to scalar with dispatch
\* off; every representation that is neither NULL, a primitive array nor a
\* generic container resolves to scalar, and NULL resolves to null.
C2_ContainersAndOthers ==
  op \in {"vec_typeof", "vctrs_typeof"} =>
    LET tabular == \E i \in 1..Len(arg.class) : arg.class[i] = "data.frame"
    IN /\ (arg.TYPEOF = "VECSXP" /\ arg.class = << >>) => typeKind = "vctrs_type_list"
       /\ (arg.TYPEOF = "VECSXP" /\ tabular) => typeKind = "vctrs_type_dataframe"
       /\ (arg.TYPEOF = "VECSXP" /\ arg.class # << >> /\ ~tabular /\ argDispatch)
            => typeKind = "vctrs_type_s3"
       /\ (arg.TYPEOF = "VECSXP" /\ arg.class # << >> /\ ~tabular /\ ~argDispatch)
            => typeKind = "vctrs_type_scalar"
       /\ arg.TYPEOF \in OtherSexp => typeKind = "vctrs_type_scalar"
       /\ arg.TYPEOF = "NILSXP" => typeKind = "vctrs_type_null"

C2_Witness ==
  /\ op = "vctrs_typeof"
  /\ arg = [TYPEOF |-> "VECSXP", class |-> <<"vctrs_rcrd">>]
  /\ ~argDispatch
  /\ typeKind = "vctrs_type_scalar"

\* C3: a call of vec_is_vector on a value that does not resolve to s3 never
\* calls vec_proxy, and returns true exactly when the value resolves to one
\* of logical, integer, double, complex, character, raw, list, dataframe
\* (false for null and scalar).
C3_NoProxyWithoutS3 ==
  (op = "vec_is_vector" /\ vec_typeof_impl(arg, TRUE) # "vctrs_type_s3") =>
    /\ proxyLog = << >>
    /\ Returned("vec_is_vector") =>
         /\ ret = (vec_typeof_impl(arg, TRUE) \in
                     {"vctrs_type_logical", "vctrs_type_integer", "vctrs_type_double",
                      "vctrs_type_complex", "vctrs_type_character", "vctrs_type_raw",
                      "vctrs_type_list", "vctrs_type_dataframe"})
         /\ vec_typeof_impl(arg, TRUE) \in {"vctrs_type_null", "vctrs_type_scalar"}
              => ret = FALSE

C3_Witness ==
  /\ Returned("vec_is_vector")
  /\ arg = [TYPEOF |-> "VECSXP", class |-> <<"tbl_df", "data.frame">>]
  /\ proxyLog = << >>
  /\ ret = TRUE

\* C4: a call of vec_is_vector on a value that resolves to s3 calls vec_proxy
\* once, on that value, and returns what vec_is_vector_rec gives for the
\* proxy with dispatch off: true for a primitive array (classed or not), a
\* list without class and a data frame; false for NULL, a classed container
\* that is no data frame and any other representation.
C4_ThroughProxy ==
  (Returned("vec_is_vector") /\ vec_typeof_impl(arg, TRUE) = "vctrs_type_s3") =>
    /\ Len(proxyLog) = 1
    /\ proxyLog[1].x = arg
    /\ LET p == proxyLog[1].proxy
           tabular == \E i \in 1..Len(p.class) : p.class[i] = "data.frame"
       IN /\ ret = IsVectorKind(vec_typeof_impl(p, FALSE))
          /\ ret = \/ p.TYPEOF \in PrimitiveSexp
                   \/ p.TYPEOF = "VECSXP" /\ (p.class = << >> \/ tabular)

C4_Witness ==
  /\ Returned("vec_is_vector")
  /\ arg = [TYPEOF |-> "VECSXP", class |-> <<"foo">>]
  /\ Len(proxyLog) = 1
  /\ proxyLog[1].proxy = [TYPEOF |-> "INTSXP", class |-> <<"foo">>]
  /\ ret = TRUE

\* C5: vec_type_as_str gives each of the eleven kinds a non-empty name, no
\* two kinds the same one, and the names are null, logical, integer, double,
\* complex, character, raw, list, dataframe, s3, scalar for the kinds so
\* called; so the string vctrs_typeof returns is one of them, the one of the
\* kind it resolved.
C5_NamesTotalDistinct ==
  LET table == {<<"vctrs_type_null", "null">>, <<"vctrs_type_logical", "logical">>,
                <<"vctrs_type_integer", "integer">>, <<"vctrs_type_double", "double">>,
                <<"vctrs_type_complex", "complex">>,
                <<"vctrs_type_character", "character">>, <<"vctrs_type_raw", "raw">>,
                <<"vctrs_type_list", "list">>, <<"vctrs_type_dataframe", "dataframe">>,
                <<"vctrs_type_s3", "s3">>, <<"vctrs_type_scalar", "scalar">>}
  IN /\ {e[1] : e \in table} = vctrs_type
     /\ \A k \in vctrs_type : vec_type_as_str(k) # ""
     /\ \A k1, k2 \in vctrs_type : k1 # k2 => vec_type_as_str(k1) # vec_type_as_str(k2)
     /\ \A e \in table : vec_type_as_str(e[1]) = e[2]
     /\ op = "vctrs_typeof" =>
          /\ typeKind \in vctrs_type
          /\ <<typeKind, typeName>> \in table

C5_Witness ==
  /\ op = "vctrs_typeof"
  /\ typeKind = "vctrs_type_dataframe"
  /\ typeName = "dataframe"

\* The state of the shared constants that C6 describes.
PoolReady ==
  /\ \A i \in 1..Len(EmptyVars) :
       LET a == shared[EmptyVars[i]]
       IN /\ a # NULL
          /\ a \in 1..Len(heap)
          /\ ~heap[a].freed
          /\ heap[a].type = EmptyTypes[i]
          /\ heap[a].length = 0
          /\ heap[a].data = << >>
          /\ heap[a].named
          /\ a \in precious
  /\ \A b \in BOOLEAN :
       LET a == shared[IF b THEN "vctrs_shared_true" ELSE "vctrs_shared_false"]
       IN /\ a # NULL
          /\ a \in 1..Len(heap)
          /\ ~heap[a].freed
          /\ heap[a].length = 1
          /\ heap[a].data = << IF b THEN 1 ELSE 0 >>
          /\ heap[a].named
          /\ a \in precious

\* C6: once vctrs_init_types has run, each of the seven empty constants is
\* allocated, of length zero, marked not mutable and preserved; the true and
\* false constants have length one, hold 1 and 0, and are marked not mutable
\* and preserved; and no later call of vec_typeof, vctrs_typeof,
\* vec_is_vector or vctrs_is_vector changes a handle or a constant.
C6_PoolAfterInit ==
  /\ [](InitDone => PoolReady)
  /\ [][InitDone => (shared' = shared /\ heap' = heap /\ precious' = precious)]_vars

C6_Witness ==
  /\ Returned("vec_is_vector")
  /\ Len(proxyLog) = 1
  /\ PoolReady

\* C7 as stated: when vec_proxy returns the value it was given, the call
\* recurses without bound, so it never returns.
C7_SelfProxyNeverReturns ==
  ~ /\ InitDone
    /\ op \in {"vec_is_vector", "vctrs_is_vector"}
    /\ stack = << >>
    /\ Len(proxyLog) >= 1
    /\ proxyLog[1].proxy = proxyLog[1].x

\* C7, amended: the recursion of vec_is_vector_rec is bounded whatever
\* vec_proxy returns: every frame but the first runs with dispatch off, its
\* value does not resolve to s3, and it is the second frame; also when
\* vec_proxy returned the value it was given.
C7_RecursionBounded ==
  \A i \in 1..Len(stack) :
    i >= 2 =>
      /\ stack[i].dispatch = FALSE
      /\ vec_typeof_impl(stack[i].x, stack[i].dispatch) # "vctrs_type_s3"
      /\ i = 2

C7_Witness ==
  /\ Len(stack) = 2
  /\ OBJECT(stack[1].x)
  /\ stack[2].x = stack[1].x
  /\ stack[2].pc = "switch"

\* C8: whatever the value, the dispatch flag of the entry and the values
\* vec_proxy returns, a call makes at most one vec_proxy call and at most one
\* recursive call, and it returns.
C8_Terminates ==
  /\ [](Len(proxyLog) <= 1 /\ Len(stack) <= 2)
  /\ (stack # << >>) ~> (stack = << >>)

C8_Witness ==
  /\ Returned("vctrs_is_vector")
  /\ argDispatch
  /\ Len(proxyLog) = 1
  /\ OBJECT(proxyLog[1].proxy)
  /\ proxyLog[1].proxy # arg
  /\ proxyLog[1].proxy.TYPEOF = "VECSXP"

\* C9: a call of vctrs_is_vector with dispatch off resolves no value to s3
\* and never calls vec_proxy; it returns true for a primitive array (classed
\* or not), a list without class and a data frame, and false for NULL, a
\* classed container that is no data frame and any other representation.
C9_NoDispatchNoProxy ==
  (op = "vctrs_is_vector" /\ ~argDispatch) =>
    /\ proxyLog = << >>
    /\ Len(stack) <= 1
    /\ \A i \in 1..Len(stack) :
         vec_typeof_impl(stack[i].x, stack[i].dispatch) # "vctrs_type_s3"
    /\ Returned("vctrs_is_vector") =>
         LET tabular == \E i \in 1..Len(arg.class) : arg.class[i] = "data.frame"
         IN ret = \/ arg.TYPEOF \in PrimitiveSexp
                  \/ arg.TYPEOF = "VECSXP" /\ (arg.class = << >> \/ tabular)

C9_Witness ==
  /\ Returned("vctrs_is_vector")
  /\ ~argDispatch
  /\ arg = [TYPEOF |-> "VECSXP", class |-> <<"foo">>]
  /\ ret = FALSE

\* C10: no step writes the contents of a vector that is already marked not
\* mutable (so the true and false constants get their value before they are
\* marked).
C10_NoWriteAfterMark ==
  [][\A a \in 1..Len(heap) : heap[a].named => heap'[a].data = heap[a].data]_vars

====
